---- MODULE Spec2Model ----
(***************************************************************************)
(* Veritas content API (src/main.py): uploads, list, update and delete of  *)
(* media items over a relational table (media_items) and a directory of    *)
(* files (uploads/), behind a bearer-token gate and an API-key gate.       *)
(*                                                                         *)
(* Every handler is an async function: it runs atomically between two      *)
(* awaits, and the statements it awaits are executed one at a time by the  *)
(* database.  A request is therefore a sequence of steps, one per awaited  *)
(* statement together with the synchronous code that follows it, and the   *)
(* steps of different requests interleave freely.                          *)
(*                                                                         *)
(* A statement can fail.  The failures modelled are those a handler treats  *)
(* specially or that follow a change the request has already made: the     *)
(* file write and the INSERT of the uploads, and the DELETE of delete_item. *)
(* A failing SELECT or UPDATE ends its request with a 500 before the        *)
(* request has changed anything.  The connection pool of database.get_db    *)
(* (at most 10 connections) never runs out with the requests of one run     *)
(* and is left out.                                                         *)
(*                                                                         *)
(* Text values are sequences of one-character strings, so that the ILIKE   *)
(* matching of list_content can be computed character by character.        *)
(***************************************************************************)
EXTENDS Integers, Sequences, FiniteSets, TLC

\* ------------------------------------------------------------------ bounds
\* Number of requests of one run (each slot of Req carries one request).
MaxReq == 3
\* Longest query string of list_content that is enumerated.
MaxQLen == 2
\* Longest title of a row that list_content is applied to.
MaxTitleLen == 2
\* Largest table list_content is applied to.
MaxRows == 2

Req == 1..MaxReq

\* ------------------------------------------------------------------ values
\* Python's None.  "None" is no character, so no text value equals it.
None == <<"None">>

\* title / category form fields of the uploads, and of the updates.
UploadTitles == {<<"a">>}
UploadCategories == {<<"x">>}
Titles == {<<"b">>}
Categories == {<<"y">>}

\* The absent row: what fetchrow returns when no row matches.
NoRow == [id |-> 0, title |-> None, category |-> None, file_path |-> 0, uploaded_at |-> 0]

\* Authorization header values: absent, a token without the prefix, the
\* prefix with a token the identity service rejects, and with one it accepts.
AuthHeaders ==
    {None, <<"good">>, <<"Bearer", " ", "bad">>, <<"Bearer", " ", "good">>}

\* X-API-Key header values: absent, empty, a wrong key, the configured key.
ApiKeyHeaders == {None, <<>>, <<"wrong">>, <<"veritas-mobile-key-2025">>}

\* Tokens auth.verify_id_token accepts (the external identity service).
ValidTokens == {<<"good">>}

VALID_API_KEYS == {<<"veritas-mobile-key-2025">>}

VARIABLES
    req,        \* req[r]: the request in slot r (kind "none": not yet sent)
    pc,         \* pc[r]: the step request r is at
    local,      \* local[r]: the handler's local variables
    resp,       \* resp[r]: the response (code 0: none yet)
    rows,       \* media_items: id -> row
    files,      \* uploads/: file name -> "complete" | "partial"
    nextId,     \* the SERIAL sequence of media_items.id
    nextUuid,   \* the next uuid4 (fresh at every call)
    listing     \* the last list_content call: its inputs and its response

vars == <<req, pc, local, resp, rows, files, nextId, nextUuid, listing>>

\* ----------------------------------------------------------------- helpers
Drop(f, k) == [x \in DOMAIN f \ {k} |-> f[x]]

Put(f, k, v) == [x \in DOMAIN f \cup {k} |-> IF x = k THEN v ELSE f[x]]

\* Python truthiness of an optional string: None and "" are falsy.
Truthy(v) == v # None /\ v # <<>>

StartsWith(s, p) == Len(s) >= Len(p) /\ SubSeq(s, 1, Len(p)) = p

NoRequest == [kind |-> "none", hdr |-> None, id |-> 0, title |-> None, category |-> None]

\* The locals of a handler: the row it fetched, the file name it generated,
\* how its write ended, what os.path.exists answered, the number of
\* statements (file write, INSERT) an upload has attempted, and whether a
\* statement of it failed.
NoLocal == [existing |-> NoRow, fname |-> 0, wrote |-> "", seen |-> "",
            tries |-> 0, fault |-> FALSE]

NoResponse == [code |-> 0, status |-> "", item |-> NoRow]

Response(c, s, i) == [code |-> c, status |-> s, item |-> i]

\* No list_content call yet.
NoListing == [q |-> None, category |-> None, code |-> 0, items |-> <<>>]

\* ---------------------------------------------------------------- Auth Gate
\* The token part of "Bearer <token>" (headers with one occurrence of the
\* prefix, which authorization.split("Bearer ")[1] cuts at).
IdToken(authorization) == SubSeq(authorization, 3, Len(authorization))

verify_firebase_token_noverify(authorization) ==
    Truthy(authorization) /\ StartsWith(authorization, <<"Bearer", " ">>)

\* TRUE when the dependency returns the decoded token, FALSE when it raises
\* HTTPException(401).
verify_firebase_token(authorization) ==
    IF ~Truthy(authorization) \/ ~StartsWith(authorization, <<"Bearer", " ">>)
    THEN FALSE
    ELSE IdToken(authorization) \in ValidTokens

\* TRUE when the dependency returns the key, FALSE when it raises 401.
verify_api_key(x_api_key) ==
    IF ~Truthy(x_api_key) THEN FALSE
    ELSE x_api_key \in VALID_API_KEYS

\* The gate of each endpoint (its Depends(...) parameter).
Authenticated(kind, hdr) ==
    IF kind = "mobile_upload" THEN verify_api_key(hdr) ELSE verify_firebase_token(hdr)

\* ------------------------------------------------------------------- Init
Init ==
    /\ req = [r \in Req |-> NoRequest]
    /\ pc = [r \in Req |-> "idle"]
    /\ local = [r \in Req |-> NoLocal]
    /\ resp = [r \in Req |-> NoResponse]
    /\ rows = <<>>
    /\ files = <<>>
    /\ nextId = 1
    /\ nextUuid = 1
    /\ listing = NoListing

\* --------------------------------------------------------------- requests
\* item_id values a request may name: every id given out so far and the
\* next one, which no row has (yet).
Ids == 1..nextId

\* A request arrives: FastAPI resolves the endpoint's dependencies, and the
\* handler body is entered only if none of them raised.  Resolving them
\* reads and writes nothing the requests share, so the arrival is one step
\* with the handler's code up to its first awaited statement.  The form
\* fields of a rejected request are read by no code, and are not recorded.
Arrives(r) ==
    /\ pc[r] = "idle"
    /\ IF r = 1 THEN TRUE ELSE pc[r - 1] # "idle"

Admit(r, kind, hdr, id, title, category) ==
    req' = [req EXCEPT ![r] = [kind |-> kind, hdr |-> hdr, id |-> id,
                               title |-> title, category |-> category]]

Reject(r, kind, hdr) ==
    /\ req' = [req EXCEPT ![r] = [NoRequest EXCEPT !.kind = kind, !.hdr = hdr]]
    /\ pc' = [pc EXCEPT ![r] = "done"]
    /\ resp' = [resp EXCEPT ![r] = Response(401, "unauthenticated", NoRow)]
    /\ UNCHANGED <<local, rows, files, nextId, nextUuid, listing>>

\* A handler ends: its response is set and its locals are kept as they are.
Finish(r, response, fault) ==
    /\ pc' = [pc EXCEPT ![r] = "done"]
    /\ resp' = [resp EXCEPT ![r] = response]
    /\ local' = [local EXCEPT ![r].fault = fault]

\* The same at the end of an upload, whose INSERT was one more statement.
FinishUpload(r, response, fault) ==
    /\ pc' = [pc EXCEPT ![r] = "done"]
    /\ resp' = [resp EXCEPT ![r] = response]
    /\ local' = [local EXCEPT ![r].fault = fault, ![r].tries = @ + 1]

\* ---------------------------------------------------------------- uploads
\* What an exception raised in the body of an upload handler becomes:
\* a 500 in upload_content, the except clause's envelope in
\* mobile_upload_content.
MobileFailureRaises(kind) == Response(500, "internal", NoRow)

UploadFailure(kind) ==
    IF kind = "mobile_upload"
    THEN Response(200, "success:false", NoRow)
    ELSE Response(500, "internal", NoRow)

UploadSuccess(kind, row) ==
    IF kind = "mobile_upload"
    THEN Response(200, "success:true", row)
    ELSE Response(200, "success", row)

\* open(save_path, "wb") and shutil.copyfileobj: the file is complete, or
\* open raised and there is no file, or the copy raised and the file holds
\* a part of the bytes.
WriteOutcomes == {"ok", "open_failed", "copy_failed"}

WriteFileLost(fs, name, outcome) ==
    IF outcome = "copy_failed" THEN Put(fs, name, "partial") ELSE fs

WriteFile(fs, name, outcome) ==
    CASE outcome = "ok" -> Put(fs, name, "complete")
      [] outcome = "copy_failed" -> Put(fs, name, "partial")
      [] OTHER -> fs

\* An exception of the write leaves the handler (or enters the except clause
\* of the mobile handler): the insert is reached only when nothing raised.
WriteRaisedIgnored(outcome) == FALSE

WriteRaised(outcome) == outcome # "ok"

\* unique_filename = uuid4 + ext; with open(...) as buffer: copyfileobj(...)
\* The file name is the fresh uuid: the extension copied from the client's
\* file name adds nothing to it that a handler reads.
UploadWrite(r, kind, hdr, title, category) ==
    /\ Arrives(r)
    /\ IF ~Authenticated(kind, hdr)
       THEN Reject(r, kind, hdr)
       ELSE /\ Admit(r, kind, hdr, 0, title, category)
            /\ \E o \in WriteOutcomes :
                /\ files' = WriteFile(files, nextUuid, o)
                /\ nextUuid' = nextUuid + 1
                /\ IF WriteRaised(o)
                   THEN /\ pc' = [pc EXCEPT ![r] = "done"]
                        /\ resp' = [resp EXCEPT ![r] = UploadFailure(kind)]
                        /\ local' = [local EXCEPT ![r].fname = nextUuid, ![r].wrote = o,
                                                   ![r].tries = 1, ![r].fault = TRUE]
                   ELSE /\ pc' = [pc EXCEPT ![r] = "insert"]
                        /\ resp' = resp
                        /\ local' = [local EXCEPT ![r].fname = nextUuid, ![r].wrote = o,
                                                   ![r].tries = 1]
            /\ UNCHANGED <<rows, nextId, listing>>

\* INSERT INTO media_items (title, category, file_path) ... RETURNING ...
\* The table gives the row its id and its uploaded_at (CURRENT_TIMESTAMP,
\* here the rank of the insertion).
UploadInsert(r) ==
    /\ pc[r] = "insert"
    /\ \E ok \in BOOLEAN :
        IF ok
        THEN LET row == [id |-> nextId, title |-> req[r].title,
                         category |-> req[r].category,
                         file_path |-> local[r].fname, uploaded_at |-> nextId]
             IN /\ rows' = Put(rows, nextId, row)
                /\ nextId' = nextId + 1
                /\ FinishUpload(r, UploadSuccess(req[r].kind, row), FALSE)
        ELSE /\ FinishUpload(r, UploadFailure(req[r].kind), TRUE)
             /\ UNCHANGED <<rows, nextId>>
    /\ UNCHANGED <<req, files, nextUuid, listing>>

upload_content(r) ==
    \/ \E h \in AuthHeaders, t \in UploadTitles, c \in UploadCategories :
           UploadWrite(r, "admin_upload", h, t, c)
    \/ req[r].kind = "admin_upload" /\ UploadInsert(r)

mobile_upload_content(r) ==
    \/ \E h \in ApiKeyHeaders, t \in UploadTitles, c \in UploadCategories :
           UploadWrite(r, "mobile_upload", h, t, c)
    \/ req[r].kind = "mobile_upload" /\ UploadInsert(r)

\* ----------------------------------------------------------------- update
\* SELECT * FROM media_items WHERE id = $1
FetchRow(table, id) == IF id \in DOMAIN table THEN table[id] ELSE NoRow

HasUpdatesTitleOnly(title, category) == Truthy(title)

\* "if updates:" after the two "if title:" / "if category:" appends.
HasUpdates(title, category) == Truthy(title) \/ Truthy(category)

SetFieldsReplace(row, title, category) ==
    [row EXCEPT !.title = title, !.category = category]

\* UPDATE media_items SET <the supplied columns> WHERE id = ...
SetFields(row, title, category) ==
    [row EXCEPT !.title = IF Truthy(title) THEN title ELSE @,
                !.category = IF Truthy(category) THEN category ELSE @]

UpdateFetch(r, hdr, item_id, title, category) ==
    /\ Arrives(r)
    /\ IF ~Authenticated("update", hdr)
       THEN Reject(r, "update", hdr)
       ELSE /\ Admit(r, "update", hdr, item_id, title, category)
            /\ LET existing == FetchRow(rows, item_id)
               IN IF existing = NoRow
                  THEN Finish(r, Response(404, "not found", NoRow), FALSE)
                  ELSE IF HasUpdates(title, category)
                       THEN /\ pc' = [pc EXCEPT ![r] = "apply"]
                            /\ local' = [local EXCEPT ![r].existing = existing]
                            /\ resp' = resp
                       ELSE /\ pc' = [pc EXCEPT ![r] = "done"]
                            /\ local' = [local EXCEPT ![r].existing = existing]
                            /\ resp' = [resp EXCEPT ![r] =
                                          Response(200, "no changes", existing)]
            /\ UNCHANGED <<rows, files, nextId, nextUuid, listing>>

\* UPDATE ... RETURNING *; dict(result).  When no row has the id any more
\* fetchrow returns None and dict(None) raises TypeError: a 500.
UpdateApply(r) ==
    /\ pc[r] = "apply"
    /\ IF req[r].id \in DOMAIN rows
       THEN LET result == SetFields(rows[req[r].id], req[r].title, req[r].category)
            IN /\ rows' = [rows EXCEPT ![req[r].id] = result]
               /\ Finish(r, Response(200, "updated", result), FALSE)
       ELSE /\ rows' = rows
            /\ Finish(r, Response(500, "internal", NoRow), FALSE)
    /\ UNCHANGED <<req, files, nextId, nextUuid, listing>>

update_content(r) ==
    \/ \E h \in AuthHeaders, i \in Ids, t \in Titles \cup {None}, c \in Categories \cup {None} :
           UpdateFetch(r, h, i, t, c)
    \/ req[r].kind = "update" /\ UpdateApply(r)

\* ----------------------------------------------------------------- delete
FileExistsAlways(fs, name) == TRUE

\* os.path.exists(file_path)
FileExists(fs, name) == name \in DOMAIN fs

RowMissingIgnored(item) == FALSE

\* "if not item:" of delete_item
RowMissing(item) == item = NoRow

DeleteFetch(r, hdr, item_id) ==
    /\ Arrives(r)
    /\ IF ~Authenticated("delete", hdr)
       THEN Reject(r, "delete", hdr)
       ELSE /\ Admit(r, "delete", hdr, item_id, None, None)
            /\ LET item == FetchRow(rows, item_id)
               IN IF RowMissing(item)
                  THEN Finish(r, Response(404, "not found", NoRow), FALSE)
                  ELSE /\ pc' = [pc EXCEPT ![r] = "unlink"]
                       /\ local' = [local EXCEPT ![r].existing = item]
                       /\ resp' = resp
            /\ UNCHANGED <<rows, files, nextId, nextUuid, listing>>

\* if os.path.exists(file_path): os.remove(file_path)
\* No await separates the two calls, so they are one step.  os.remove
\* raises FileNotFoundError on a file that is not there.
DeleteFile(r) ==
    /\ pc[r] = "unlink"
    /\ LET name == local[r].existing.file_path
       IN IF FileExists(files, name)
          THEN IF name \notin DOMAIN files
               THEN /\ Finish(r, Response(500, "internal", NoRow), FALSE)
                    /\ files' = files
               ELSE /\ files' = Drop(files, name)
                    /\ pc' = [pc EXCEPT ![r] = "delrow"]
                    /\ local' = [local EXCEPT ![r].seen = "yes"]
                    /\ resp' = resp
          ELSE /\ pc' = [pc EXCEPT ![r] = "delrow"]
               /\ local' = [local EXCEPT ![r].seen = "no"]
               /\ UNCHANGED <<resp, files>>
    /\ UNCHANGED <<req, rows, nextId, nextUuid, listing>>

\* DELETE FROM media_items WHERE id = $1 (no error when no row matches);
\* the response names the title of the row fetched at the start.
DeleteRow(r) ==
    /\ pc[r] = "delrow"
    /\ \E ok \in BOOLEAN :
        IF ok
        THEN /\ rows' = Drop(rows, req[r].id)
             /\ Finish(r, Response(200, "deleted", local[r].existing), FALSE)
        ELSE /\ rows' = rows
             /\ Finish(r, Response(500, "internal", NoRow), TRUE)
    /\ UNCHANGED <<req, files, nextId, nextUuid, listing>>

delete_item(r) ==
    \/ \E h \in AuthHeaders, i \in Ids : DeleteFetch(r, h, i)
    \/ req[r].kind = "delete" /\ (DeleteFile(r) \/ DeleteRow(r))

\* ------------------------------------------------------------------- list
\* Characters of the titles and queries list_content is applied to.
Chars == {"a", "A", "_"}

\* lower() of one character.
LowerChar(c) == IF c = "A" THEN "a" ELSE c

Strings(n) == UNION {[1..k -> Chars] : k \in 0..n}

\* The sentinel of the category filter.
ALL == <<"A", "L", "L">>

\* q and category query parameters: absent, empty, or a text.
Queries == {None} \cup Strings(MaxQLen)
CategoryFilters == {None, <<>>, ALL, <<"x">>}

ListTitles == Strings(MaxTitleLen) \ {<<>>}
ListCategories == {<<"x">>, <<"X">>}

\* s ILIKE p of PostgreSQL: % matches any run of characters, _ any one
\* character, a backslash takes the next character literally, every other
\* character matches itself in either case.
RECURSIVE ILike(_, _)
ILike(s, p) ==
    IF p = <<>> THEN s = <<>>
    ELSE IF Head(p) = "%"
         THEN ILike(s, Tail(p)) \/ (s # <<>> /\ ILike(Tail(s), p))
         ELSE IF s = <<>> THEN FALSE
         ELSE IF Head(p) = "_" THEN ILike(Tail(s), Tail(p))
         ELSE IF Head(p) = "\\" /\ Len(p) >= 2
              THEN LowerChar(Head(s)) = LowerChar(p[2]) /\ ILike(Tail(s), Tail(Tail(p)))
              ELSE LowerChar(Head(s)) = LowerChar(Head(p)) /\ ILike(Tail(s), Tail(p))

\* The WHERE clause list_content builds: 1=1, AND category = $n under
\* "if category and category != 'ALL'", AND title ILIKE '%q%' under "if q".
Selected(row, q, category) ==
    /\ (Truthy(category) /\ category # ALL) => row.category = category
    /\ Truthy(q) => ILike(row.title, <<"%">> \o q \o <<"%">>)

\* base_url of list_content, with settings.SERVER_IP at its default.
BaseUrl == "http://127.0.0.1:8000/files/"

Projection(row) ==
    [id |-> row.id, title |-> row.title, category |-> row.category,
     url |-> <<BaseUrl, row.file_path>>, uploaded_at |-> row.uploaded_at]

\* The rows of a SELECT without ORDER BY, taken in primary-key order.
RECURSIVE InIdOrder(_, _)
InIdOrder(table, ids) ==
    IF ids = {} THEN <<>>
    ELSE LET m == CHOOSE i \in ids : \A j \in ids : i <= j
         IN <<table[m]>> \o InIdOrder(table, ids \ {m})

ListContent(table, q, category) ==
    LET hit == {i \in DOMAIN table : Selected(table[i], q, category)}
        found == InIdOrder(table, hit)
    IN [i \in 1..Len(found) |-> Projection(found[i])]

list_content ==
    /\ \E q \in Queries, category \in CategoryFilters :
        listing' = [q |-> q, category |-> category, code |-> 200,
                    items |-> ListContent(rows, q, category)]
    /\ UNCHANGED <<req, pc, local, resp, rows, files, nextId, nextUuid>>

\* Tables list_content is applied to: rows 1..n (n <= max) as n uploads
\* leave them, with any title and category, each with its file.
ListTables(max) ==
    UNION {{[i \in 1..n |-> [id |-> i, title |-> tc[i][1], category |-> tc[i][2],
                             file_path |-> i, uploaded_at |-> i]] :
               tc \in [1..n -> ListTitles \X ListCategories]} : n \in 0..max}

InitList ==
    /\ req = [r \in Req |-> NoRequest]
    /\ pc = [r \in Req |-> "idle"]
    /\ local = [r \in Req |-> NoLocal]
    /\ resp = [r \in Req |-> NoResponse]
    /\ rows \in ListTables(MaxRows)
    /\ files = [i \in DOMAIN rows |-> "complete"]
    /\ nextId = Len(rows) + 1
    /\ nextUuid = Len(rows) + 1
    /\ listing = NoListing

NextList == list_content

SpecList == InitList /\ [][NextList]_vars

Next ==
    \/ \E r \in Req : upload_content(r)
    \/ \E r \in Req : mobile_upload_content(r)
    \/ \E r \in Req : update_content(r)
    \/ \E r \in Req : delete_item(r)

Spec == Init /\ [][Next]_vars

\* ================================================================ claims
Uploads == {"admin_upload", "mobile_upload"}

\* ---------------------------------------------------------------------
\* C1: in both upload variants the row insert is attempted only after the
\* blob write has completed: an upload whose write failed has ended and no
\* row names its file, every row was inserted by an upload whose write
\* completed, and a row's file, where present, is complete.
InsertOnlyAfterCompleteWrite ==
    /\ \A r \in Req :
          (req[r].kind \in Uploads /\ local[r].wrote \in {"open_failed", "copy_failed"})
          => /\ pc[r] = "done"
             /\ \A i \in DOMAIN rows : rows[i].file_path # local[r].fname
    /\ \A i \in DOMAIN rows :
          /\ \E r \in Req : /\ req[r].kind \in Uploads
                             /\ local[r].fname = rows[i].file_path
                             /\ local[r].wrote = "ok"
          /\ rows[i].file_path \in DOMAIN files => files[rows[i].file_path] = "complete"

\* An admin upload and a mobile upload whose writes failed (one of them
\* leaving a partial file), beside a row of a third upload.
FailedWritesBesideARow ==
    /\ rows # <<>>
    /\ \E r1, r2 \in Req :
          /\ req[r1].kind = "admin_upload" /\ local[r1].wrote = "copy_failed"
          /\ local[r1].fname \in DOMAIN files
          /\ req[r2].kind = "mobile_upload" /\ local[r2].wrote \in {"open_failed", "copy_failed"}

\* ---------------------------------------------------------------------
\* C2: a delete of an item_id that has no row answers 404 and changes
\* neither the table nor the files; a delete of a row whose file is absent
\* passes the file removal without an error, and its DELETE, unless the
\* statement itself fails, removes that row only and answers 200.
DeleteOfMissingRowOrMissingFile ==
    [][\A r \in Req :
        (req'[r].kind = "delete" /\ pc'[r] # pc[r]) =>
          /\ (pc[r] = "idle" /\ resp'[r].code # 401 /\ req'[r].id \notin DOMAIN rows)
             => (resp'[r].code = 404 /\ pc'[r] = "done" /\ rows' = rows /\ files' = files)
          /\ (pc[r] = "unlink" /\ local[r].existing.file_path \notin DOMAIN files)
             => (pc'[r] = "delrow" /\ rows' = rows /\ files' = files)
          /\ (pc[r] = "delrow" /\ ~local'[r].fault)
             => /\ resp'[r].code = 200
                /\ files' = files
                /\ DOMAIN rows' = DOMAIN rows \ {req[r].id}
                /\ \A i \in DOMAIN rows' : rows'[i] = rows[i]
      ]_vars

\* A delete that found its row, found the file absent, and succeeded.
DeletedWithoutFile ==
    \E r \in Req : /\ req[r].kind = "delete" /\ local[r].seen = "no"
                   /\ resp[r].code = 200 /\ req[r].id \notin DOMAIN rows

\* ---------------------------------------------------------------------
\* C3: a request whose credentials are absent, lack the "Bearer " prefix,
\* fail verification, or (mobile upload) are not in the allow-list is
\* answered 401 in its first step, which writes or removes no file and
\* inserts, updates or deletes no row; and an answered request takes no
\* further step.
BadCredentials(kind, hdr) ==
    IF kind = "mobile_upload"
    THEN hdr = None \/ hdr \notin VALID_API_KEYS
    ELSE \/ hdr = None
         \/ ~StartsWith(hdr, <<"Bearer", " ">>)
         \/ IdToken(hdr) \notin ValidTokens

AuthGateShortCircuits ==
    [][\A r \in Req :
        /\ (pc[r] = "idle" /\ pc'[r] # "idle" /\ BadCredentials(req'[r].kind, req'[r].hdr))
           => /\ resp'[r].code = 401 /\ pc'[r] = "done"
              /\ rows' = rows /\ files' = files
              /\ local'[r] = NoLocal
        /\ pc[r] = "done" => (pc'[r] = "done" /\ resp'[r] = resp[r] /\ local'[r] = local[r])
      ]_vars

\* A row is stored, and a delete with a token that fails verification and a
\* mobile upload with a wrong key have both been answered 401.
RejectedBesideARow ==
    /\ rows # <<>>
    /\ \E r \in Req : /\ req[r].kind = "delete" /\ req[r].hdr = <<"Bearer", " ", "bad">>
                       /\ resp[r].code = 401
    /\ \E r \in Req : /\ req[r].kind = "mobile_upload" /\ req[r].hdr = <<"wrong">>
                       /\ resp[r].code = 401

\* ---------------------------------------------------------------------
\* C4: the step in which an update of an existing item_id is answered
\* answers "no changes" exactly when neither title nor category was
\* supplied, and then leaves the table as it is and returns the row as it
\* was; otherwise it answers "updated" with the row as it now is.
UpdateNoChangesIffNothingSupplied ==
    [][\A r \in Req :
        (/\ req'[r].kind = "update"
         /\ resp[r].code = 0 /\ resp'[r].code \notin {0, 401}
         /\ req'[r].id \in DOMAIN rows)
        => IF req'[r].title = None /\ req'[r].category = None
           THEN /\ resp'[r] = Response(200, "no changes", rows[req'[r].id])
                /\ rows' = rows
           ELSE /\ req'[r].id \in DOMAIN rows'
                /\ resp'[r] = Response(200, "updated", rows'[req'[r].id])
      ]_vars

\* One update answered "no changes" and one answered "updated".
BothUpdateAnswers ==
    \E r1, r2 \in Req :
        /\ req[r1].kind = "update" /\ resp[r1].status = "no changes"
        /\ req[r2].kind = "update" /\ resp[r2].status = "updated"

\* ---------------------------------------------------------------------
\* C5: a step of an update changes no file, adds or removes no row, leaves
\* every other row as it is, and changes of its own row only the supplied
\* fields among title and category: never id, file_path or uploaded_at.
UpdateTouchesOnlySuppliedFields ==
    [][\A r \in Req :
        (req'[r].kind = "update" /\ pc'[r] # pc[r]) =>
          /\ files' = files
          /\ DOMAIN rows' = DOMAIN rows
          /\ \A i \in DOMAIN rows :
                IF i = req'[r].id /\ pc[r] = "apply"
                THEN rows'[i] =
                       [rows[i] EXCEPT
                          !.title = IF req[r].title # None THEN req[r].title ELSE @,
                          !.category = IF req[r].category # None THEN req[r].category ELSE @]
                ELSE rows'[i] = rows[i]
      ]_vars

\* An update that supplied the title alone has been applied to one of two
\* rows: the title is the new one, the category the uploaded one.
TitleOnlyUpdateApplied ==
    \E r \in Req :
        /\ req[r].kind = "update" /\ resp[r].status = "updated"
        /\ req[r].title = <<"b">> /\ req[r].category = None
        /\ req[r].id \in DOMAIN rows
        /\ rows[req[r].id].title = <<"b">> /\ rows[req[r].id].category = <<"x">>
        /\ \E i \in DOMAIN rows : i # req[r].id

\* ---------------------------------------------------------------------
\* C7: a failed blob write or row insert of a mobile upload is answered 200
\* with success:false and no data, the same failure of an admin upload is
\* answered 500, and the failed statement was the last one the request
\* attempted (one write, and one insert if the write completed).
UploadFailuresReported ==
    \A r \in Req :
        req[r].kind \in Uploads =>
          /\ local[r].tries <= 2
          /\ local[r].fault =>
                /\ pc[r] = "done"
                /\ local[r].tries = IF local[r].wrote = "ok" THEN 2 ELSE 1
                /\ req[r].kind = "mobile_upload"
                   => resp[r] = Response(200, "success:false", NoRow)
                /\ req[r].kind = "admin_upload" => resp[r].code = 500

\* A mobile upload whose insert failed and an admin upload whose write
\* failed.
BothUploadsFailed ==
    \E r1, r2 \in Req :
        /\ req[r1].kind = "mobile_upload" /\ local[r1].fault /\ local[r1].wrote = "ok"
        /\ req[r2].kind = "admin_upload" /\ local[r2].fault /\ local[r2].wrote # "ok"

\* ---------------------------------------------------------------------
\* C8 as stated: of two delete requests of the same item_id at most one
\* reports a successful deletion, and a delete whose statements did not
\* fail ends with 200, 404 (or 401).
AtMostOneDeleteSucceeds ==
    /\ \A r1, r2 \in Req :
          (r1 # r2 /\ req[r1].kind = "delete" /\ req[r2].kind = "delete"
                   /\ req[r1].id = req[r2].id)
          => ~(resp[r1].code = 200 /\ resp[r2].code = 200)
    /\ \A r \in Req :
          (req[r].kind = "delete" /\ pc[r] = "done" /\ ~local[r].fault)
          => resp[r].code \in {200, 404, 401}

\* C8 as amended: a delete that fetches the row after another delete of the
\* same item_id has reported success is answered 404; a delete reports
\* success only if it fetched the row; and a delete whose statements did
\* not fail ends with 200, 404 (or 401), never with an internal error.
LateDeleteReportsNotFound ==
    [][\A r \in Req :
        (req'[r].kind = "delete" /\ pc'[r] # pc[r]) =>
          /\ (/\ pc[r] = "idle" /\ resp'[r].code # 401
              /\ \E r2 \in Req \ {r} : /\ req[r2].kind = "delete"
                                        /\ req[r2].id = req'[r].id
                                        /\ resp[r2].code = 200)
             => resp'[r].code = 404
          /\ resp'[r].code = 200 => local[r].existing # NoRow
          /\ (pc'[r] = "done" /\ ~local'[r].fault) => resp'[r].code \in {200, 404, 401}
      ]_vars

\* Two deletes of the same item_id: one succeeded, the later one got 404.
SecondDeleteNotFound ==
    \E r1, r2 \in Req :
        /\ req[r1].kind = "delete" /\ req[r2].kind = "delete"
        /\ req[r1].id = req[r2].id
        /\ resp[r1].code = 200 /\ resp[r2].code = 404

\* ---------------------------------------------------------------------
\* C9 as stated: every row has a file named by its file_path in uploads/.
EveryRowHasItsFile ==
    \A i \in DOMAIN rows : rows[i].file_path \in DOMAIN files

\* A delete of row i that has removed the file and not the row: it is
\* between its file removal and its DELETE, or its DELETE failed.
FileRemovedByDelete(i) ==
    \E r \in Req :
        /\ req[r].kind = "delete" /\ req[r].id = i /\ local[r].seen = "yes"
        /\ pc[r] = "delrow" \/ (pc[r] = "done" /\ local[r].fault)

\* C9 as amended: every row has its complete file in uploads/, except a
\* row whose file a delete of that row has removed without (yet) deleting
\* the row.
RowsHaveFilesUnlessDeleteRemovedThem ==
    \A i \in DOMAIN rows :
        \/ /\ rows[i].file_path \in DOMAIN files
           /\ files[rows[i].file_path] = "complete"
        \/ FileRemovedByDelete(i)

\* A row with its file beside the partial file of a failed upload, and a
\* delete in flight whose row is still stored.
RowsBesideFailedUploadAndDelete ==
    /\ \E i \in DOMAIN rows : rows[i].file_path \in DOMAIN files
    /\ \E r \in Req : req[r].kind \in Uploads /\ local[r].wrote = "copy_failed"
    /\ \E r \in Req : req[r].kind = "delete" /\ pc[r] \in {"unlink", "delrow"}

\* ---------------------------------------------------------------------
\* C10 as stated: an update ends with 404 or with a success response that
\* carries a row, never with an internal error; and after a delete of X has
\* reported success no row has id X.
UpdateNeverInternalError ==
    /\ \A r \in Req :
          (req[r].kind = "update" /\ pc[r] = "done" /\ ~local[r].fault)
          => \/ resp[r].code \in {401, 404}
             \/ /\ resp[r].code = 200
                /\ resp[r].status \in {"updated", "no changes"}
                /\ resp[r].item # NoRow
    /\ \A r \in Req :
          (req[r].kind = "delete" /\ resp[r].code = 200) => req[r].id \notin DOMAIN rows

\* ---------------------------------------------------------------------
\* C6 as stated: list_content returns exactly the rows for which the
\* category filter is absent, "ALL" or the row's category, and q is absent
\* or a substring of the title, case ignored, and answers 200.  (An empty
\* parameter is read here as an absent one.)
Lower(s) == [i \in 1..Len(s) |-> LowerChar(s[i])]

Contains(s, q) == \E i \in 0..(Len(s) - Len(q)) : SubSeq(s, i + 1, i + Len(q)) = q

Absent(v) == v = None \/ v = <<>>

ClaimSelected(row, q, category) ==
    /\ Absent(category) \/ category = ALL \/ row.category = category
    /\ Absent(q) \/ Contains(Lower(row.title), Lower(q))

ListReturnsClaimedRows ==
    listing.code # 0 =>
      /\ listing.code = 200
      /\ {listing.items[k].id : k \in 1..Len(listing.items)}
           = {i \in DOMAIN rows : ClaimSelected(rows[i], listing.q, listing.category)}

====
